---- MODULE Spec2Model ----
(***************************************************************************)
(* Model of js/scripts.js of the Rewall website: the Lightbox gallery      *)
(* viewer, the MobileMenu it shares document.body.style.overflow with,     *)
(* and the DOM events that drive both.                                     *)
(*                                                                         *)
(* Every event handler and every public method runs to completion on the   *)
(* single UI thread, so each one is one atomic action.  A click is         *)
(* dispatched to the listeners of its target first and then bubbles to the *)
(* document-level listener MobileMenu.init registers; an exception thrown  *)
(* by one listener is reported and does not stop the next listener.        *)
(***************************************************************************)
EXTENDS Integers, Sequences, FiniteSets, TLC

\* ------------------------------------------------------------------ bounds
\* Largest number of [data-lightbox-item] elements in the page.
MaxItems == 3

\* Largest number of calls of a debounced or throttled function.
MaxCalls == 4
\* Last instant of the clock.
MaxTime == 5
\* The wait given to Utilities.debounce, in clock ticks.
Wait == 2
\* Deepest nesting of calls of the throttled function made by func itself.
MaxDepth == 1

\* ---------------------------------------------------------- JS value model
\* The JavaScript number NaN, kept apart from every index the model can reach.
NaN == -1000
\* window.innerWidth above which a resize closes the menu.
Breakpoint == 768

Null == "<null>"
Undefined == "<undefined>"

IsInteger(x) == x # NaN

\* a || b on attribute values: null, undefined and "" are falsy.
Truthy(v) == v \notin {Null, Undefined, ""}
JsOr(a, b) == IF Truthy(a) THEN a ELSE b

\* String(v) as applied when a value is assigned to a DOM string property.
ToDOMString(v) ==
  IF v = Undefined THEN "undefined" ELSE IF v = Null THEN "null" ELSE v

Digits == <<"0", "1", "2", "3", "4", "5", "6", "7", "8", "9">>

RECURSIVE NatToString(_)
NatToString(n) ==
  IF n < 10 THEN Digits[n + 1]
  ELSE NatToString(n \div 10) \o Digits[(n % 10) + 1]

\* Number -> string, as textContent = <number> does.
NumberToString(n) ==
  IF n = NaN THEN "NaN"
  ELSE IF n < 0 THEN "-" \o NatToString(-n)
  ELSE NatToString(n)

\* a + b on JS numbers.
JsAdd(a, b) == IF a = NaN \/ b = NaN THEN NaN ELSE a + b

\* a % n on JS numbers: NaN for n = 0, otherwise the sign of the dividend.
JsRem(a, n) ==
  IF a = NaN \/ n = NaN \/ n = 0 THEN NaN
  ELSE IF a >= 0 THEN a % n
  ELSE -((-a) % n)

\* ------------------------------------------------------------ page content
\* The three shapes of gallery item the attribute fallbacks distinguish:
\* an element with data-* attributes, a plain <img>, and an element with
\* empty attributes.  k is the item's position, so items differ by position.
ItemKinds == <<"data", "img", "bare">>

Item(kind, k) ==
  IF kind = "data" THEN
    [dataSrc |-> "full" \o NumberToString(k) \o ".jpg", src |-> Undefined,
     dataAlt |-> "alt" \o NumberToString(k), alt |-> Undefined,
     dataCaption |-> "caption" \o NumberToString(k)]
  ELSE IF kind = "img" THEN
    [dataSrc |-> Null, src |-> "thumb" \o NumberToString(k) \o ".jpg",
     dataAlt |-> Null, alt |-> "imgalt" \o NumberToString(k),
     dataCaption |-> Null]
  ELSE
    [dataSrc |-> "", src |-> Undefined, dataAlt |-> "", alt |-> Undefined,
     dataCaption |-> ""]

\* The galleries the page may hold: every length up to MaxItems, the kinds
\* taken in turn from each starting kind, so every kind occurs at every
\* position.
Galleries ==
  {[k \in 1..n |-> ItemKinds[((k + r) % Len(ItemKinds)) + 1]] :
     n \in 0..MaxItems, r \in 1..Len(ItemKinds)}

\* The indices a caller of the exported Lightbox.open may pass: the valid
\* ones and some on either side of the range.
ApiIndices == (-2)..(MaxItems + 1)

Keys == {"ArrowLeft", "ArrowRight", "Escape", "Enter"}
Widths == {Breakpoint, Breakpoint + 1}

\* ------------------------------------------------------------------- state
VARIABLES
  hasGallery,       \* Lightbox.gallery is not null
  items,            \* Lightbox.items: the gallery items found at construction
  hasHamburger,     \* MobileMenu.hamburger is not null
  hasMenu,          \* MobileMenu.menu is not null
  currentIndex,     \* Lightbox.currentIndex
  modalActive,      \* Lightbox.modal carries the class 'active'
  modalCount,       \* number of [data-lightbox-modal] elements in the document
  display,          \* the modal's image, caption and counter
  bodyOverflow,     \* document.body.style.overflow
  isOpen,           \* MobileMenu.isOpen
  hamburgerActive,  \* the hamburger carries the class 'active'
  menuActive,       \* the menu carries the class 'active'
  linkAnimation,    \* style.animation of the menu links
  err,              \* exception left uncaught by the last event or call
  lastOp,           \* the last event or call
  lastArg,          \* its index (open, item click) or width (resize)
  indexBefore,      \* currentIndex before the last event or call
  prevOp,           \* the event or call before the last one
  indexBefore2,     \* currentIndex before that one
  runLength,        \* number of next() calls in a row, up to RunCap
  runStart,         \* currentIndex before the first of them
  now,              \* the clock
  dbTimeout,        \* debounce: the closure's timeout (0 is undefined)
  dbTimers,         \* debounce: the pending timers
  dbNextId,         \* the id the next setTimeout returns
  dbCalls,          \* debounce: the calls made so far, <<time, args>> each
  dbLog,            \* debounce: the invocations of func so far
  thInThrottle,     \* throttle: the closure's inThrottle
  thTimers,         \* throttle: number of pending limit timers
  thExpiries,       \* throttle: timers expired since func last ran
  thCalls,          \* throttle: the args of the calls made so far
  thLog,            \* throttle: the invocations of func so far
  thErr             \* throttle: the exception the last call let through

pageVars == <<hasGallery, items, hasHamburger, hasMenu>>
progVars == <<currentIndex, modalActive, modalCount, display, bodyOverflow, isOpen,
              hamburgerActive, menuActive, linkAnimation>>
histVars == <<lastOp, lastArg, indexBefore, prevOp, indexBefore2, runLength,
              runStart>>
debounceVars == <<now, dbTimeout, dbTimers, dbNextId, dbCalls, dbLog>>
throttleVars == <<thInThrottle, thTimers, thExpiries, thCalls, thLog, thErr>>
utilVars == <<debounceVars, throttleVars>>
vars == <<pageVars, progVars, err, histVars, utilVars>>

itemCount == Len(items)
RunCap == MaxItems + 1

\* The mutable program state as one record, threaded through the handlers.
Cur ==
  [currentIndex |-> currentIndex, modalActive |-> modalActive,
   modalCount |-> modalCount, display |-> display, bodyOverflow |-> bodyOverflow, isOpen |-> isOpen,
   hamburgerActive |-> hamburgerActive, menuActive |-> menuActive,
   linkAnimation |-> linkAnimation, err |-> "none"]

Commit(s) ==
  /\ currentIndex' = s.currentIndex
  /\ modalActive' = s.modalActive
  /\ modalCount' = s.modalCount
  /\ display' = s.display
  /\ bodyOverflow' = s.bodyOverflow
  /\ isOpen' = s.isOpen
  /\ hamburgerActive' = s.hamburgerActive
  /\ menuActive' = s.menuActive
  /\ linkAnimation' = s.linkAnimation
  /\ err' = s.err

EmptyDisplay ==
  [src |-> "", alt |-> "", caption |-> "", current |-> "", total |-> "",
   animation |-> ""]

\* ---------------------------------------------------------------- Lightbox
\* The document before DOMContentLoaded: no modal, nothing styled.
Blank ==
  [currentIndex |-> 0, modalActive |-> FALSE, modalCount |-> 0,
   display |-> EmptyDisplay, bodyOverflow |-> "", isOpen |-> FALSE,
   hamburgerActive |-> FALSE, menuActive |-> FALSE, linkAnimation |-> "",
   err |-> "none"]

\* createModal appends one modal, with empty image, caption and counter.
Lightbox_createModal(s) ==
  [s EXCEPT !.modalCount = @ + 1, !.display = EmptyDisplay,
            !.modalActive = FALSE]

\* The constructor and init(): currentIndex = 0, one modal created; the item
\* listeners it binds are the ClickItem actions.
Lightbox_init(s) ==
  Lightbox_createModal([s EXCEPT !.currentIndex = 0])

\* The MobileMenu constructor: isOpen = false; the listeners init() binds
\* are the ClickHamburger, ClickMenuLink, ClickOutside and Resize actions.
MobileMenu_init(s) ==
  [s EXCEPT !.isOpen = FALSE]

\* Variant: the counter shows the 0-based index.
Lightbox_updateLightbox_ZeroBased(s) ==
  LET idx == s.currentIndex IN
  IF ~(IsInteger(idx) /\ idx >= 0 /\ idx < itemCount)
  THEN [s EXCEPT !.err = "TypeError"]
  ELSE LET item == items[idx + 1] IN
       [s EXCEPT !.display =
          [src |-> ToDOMString(JsOr(item.dataSrc, item.src)),
           alt |-> ToDOMString(JsOr(JsOr(item.dataAlt, item.alt), "")),
           caption |-> ToDOMString(JsOr(item.dataCaption, "")),
           current |-> NumberToString(idx),
           total |-> NumberToString(itemCount),
           animation |-> "fadeIn 0.3s ease-in-out"]]

Lightbox_updateLightbox(s) ==
  LET idx == s.currentIndex IN
  IF ~(IsInteger(idx) /\ idx >= 0 /\ idx < itemCount)
  THEN \* items[idx] is undefined: item.getAttribute throws
       [s EXCEPT !.err = "TypeError"]
  ELSE LET item == items[idx + 1] IN
       [s EXCEPT !.display =
          [src |-> ToDOMString(JsOr(item.dataSrc, item.src)),
           alt |-> ToDOMString(JsOr(JsOr(item.dataAlt, item.alt), "")),
           caption |-> ToDOMString(JsOr(item.dataCaption, "")),
           current |-> NumberToString(JsAdd(idx, 1)),
           total |-> NumberToString(itemCount),
           animation |-> "fadeIn 0.3s ease-in-out"]]

\* Variant: open() builds the modal each time it is called.
Lightbox_open_Recreate(s, index) ==
  LET s0 == [s EXCEPT !.modalCount = @ + 1] IN
  LET s1 == Lightbox_updateLightbox([s0 EXCEPT !.currentIndex = index]) IN
  IF s1.err # "none" THEN s1
  ELSE [s1 EXCEPT !.modalActive = TRUE, !.bodyOverflow = "hidden"]

Lightbox_open(s, index) ==
  LET s1 == Lightbox_updateLightbox([s EXCEPT !.currentIndex = index]) IN
  IF s1.err # "none" THEN s1
  ELSE [s1 EXCEPT !.modalActive = TRUE, !.bodyOverflow = "hidden"]

\* Variant: close() toggles the class and the lock instead of removing them.
Lightbox_close_Toggle(s) ==
  [s EXCEPT !.modalActive = ~s.modalActive,
            !.bodyOverflow = IF s.modalActive THEN "" ELSE "hidden"]

\* Variant: close() also goes back to the first item.
Lightbox_close_ResetIndex(s) ==
  [s EXCEPT !.modalActive = FALSE, !.bodyOverflow = "", !.currentIndex = 0]

\* Variant: close() hides the modal and keeps the scroll lock.
Lightbox_close_KeepLock(s) ==
  [s EXCEPT !.modalActive = FALSE]

Lightbox_close(s) ==
  [s EXCEPT !.modalActive = FALSE, !.bodyOverflow = ""]

\* Variants: next() without the modulo, next() stopping at the last item,
\* prev() without adding the length before the modulo.
NextIndex_NoWrap(cur, len) == JsAdd(cur, 1)

NextIndex_Clamp(cur, len) ==
  IF JsAdd(cur, 1) >= len THEN JsAdd(len, -1) ELSE JsAdd(cur, 1)

PrevIndex_NoAdd(cur, len) == JsRem(JsAdd(cur, -1), len)

NextIndex(cur, len) == JsRem(JsAdd(cur, 1), len)

PrevIndex(cur, len) == JsRem(JsAdd(JsAdd(cur, -1), len), len)

\* Variant: next() stores the new index and does not render it.
Lightbox_next_NoRender(s) ==
  [s EXCEPT !.currentIndex = NextIndex(s.currentIndex, itemCount)]

Lightbox_next(s) ==
  Lightbox_updateLightbox(
    [s EXCEPT !.currentIndex = NextIndex(s.currentIndex, itemCount)])

Lightbox_prev(s) ==
  Lightbox_updateLightbox(
    [s EXCEPT !.currentIndex = PrevIndex(s.currentIndex, itemCount)])

\* Variant: the keydown listener without its check of the 'active' class.
Lightbox_keydown_Unguarded(s, key) ==
  IF key = "ArrowLeft" THEN Lightbox_prev(s)
  ELSE IF key = "ArrowRight" THEN Lightbox_next(s)
  ELSE IF key = "Escape" THEN Lightbox_close(s)
  ELSE s

\* The document keydown listener of setupModalListeners.
Lightbox_keydown(s, key) ==
  IF ~s.modalActive THEN s
  ELSE IF key = "ArrowLeft" THEN Lightbox_prev(s)
  ELSE IF key = "ArrowRight" THEN Lightbox_next(s)
  ELSE IF key = "Escape" THEN Lightbox_close(s)
  ELSE s

\* -------------------------------------------------------------- MobileMenu
MobileMenu_open(s) ==
  LET s1 == [s EXCEPT !.isOpen = TRUE] IN
  IF ~hasHamburger THEN [s1 EXCEPT !.err = "TypeError"]
  ELSE LET s2 == [s1 EXCEPT !.hamburgerActive = TRUE] IN
       IF ~hasMenu THEN [s2 EXCEPT !.err = "TypeError"]
       ELSE [s2 EXCEPT !.menuActive = TRUE, !.bodyOverflow = "hidden",
                       !.linkAnimation = "slideInLeft"]

MobileMenu_close(s) ==
  LET s1 == [s EXCEPT !.isOpen = FALSE] IN
  IF ~hasHamburger THEN [s1 EXCEPT !.err = "TypeError"]
  ELSE LET s2 == [s1 EXCEPT !.hamburgerActive = FALSE] IN
       IF ~hasMenu THEN [s2 EXCEPT !.err = "TypeError"]
       ELSE [s2 EXCEPT !.menuActive = FALSE, !.bodyOverflow = "",
                       !.linkAnimation = "slideOutLeft"]

MobileMenu_toggle(s) ==
  IF s.isOpen THEN MobileMenu_close(s) ELSE MobileMenu_open(s)

\* Variant: the document click listener without its two closest() checks.
MobileMenu_documentClick_NoTargetCheck(s, inside) ==
  IF s.isOpen THEN MobileMenu_close(s) ELSE s

\* The document click listener: inside is TRUE when the click's target lies
\* in [data-mobile-menu] or in [data-hamburger].
MobileMenu_documentClick(s, inside) ==
  IF s.isOpen /\ ~inside THEN MobileMenu_close(s) ELSE s

MobileMenu_resize(s, innerWidth) ==
  IF innerWidth > Breakpoint /\ s.isOpen THEN MobileMenu_close(s) ELSE s

\* ---------------------------------------------------------- event dispatch
\* r is what a listener made of state s (entered with no pending exception):
\* an exception an earlier listener of the same event threw stays reported.
After(s, r) == [r EXCEPT !.err = IF s.err # "none" THEN s.err ELSE r.err]
Enter(s) == [s EXCEPT !.err = "none"]

Bubble(s, inside) == After(s, MobileMenu_documentClick(Enter(s), inside))

Record(op, arg) ==
  /\ lastOp' = op
  /\ lastArg' = arg
  /\ indexBefore' = currentIndex
  /\ prevOp' = lastOp
  /\ indexBefore2' = indexBefore
  /\ IF op = "next"
     THEN /\ runLength' = IF runLength < RunCap THEN runLength + 1 ELSE RunCap
          /\ runStart' = IF runLength = 0 THEN currentIndex ELSE runStart
     ELSE /\ runLength' = 0
          /\ runStart' = 0
  /\ UNCHANGED <<pageVars, utilVars>>

\* ----------------------------------------------------------------- actions
\* The page after DOMContentLoaded: new MobileMenu(); new Lightbox().
Constructed == Lightbox_init(MobileMenu_init(Blank))

ProgInit ==
  /\ currentIndex = Constructed.currentIndex
  /\ modalActive = Constructed.modalActive
  /\ modalCount = Constructed.modalCount
  /\ display = Constructed.display
  /\ bodyOverflow = Constructed.bodyOverflow
  /\ isOpen = Constructed.isOpen
  /\ hamburgerActive = Constructed.hamburgerActive
  /\ menuActive = Constructed.menuActive
  /\ linkAnimation = Constructed.linkAnimation
  /\ err = Constructed.err

HistInit ==
  /\ lastOp = "init"
  /\ lastArg = 0
  /\ indexBefore = 0
  /\ prevOp = "init"
  /\ indexBefore2 = 0
  /\ runLength = 0
  /\ runStart = 0

\* Utilities.debounce(func, Wait) has returned its wrapper: no timer yet.
DebounceInit ==
  /\ now = 0
  /\ dbTimeout = 0
  /\ dbTimers = {}
  /\ dbNextId = 1
  /\ dbCalls = << >>
  /\ dbLog = << >>

\* Utilities.throttle(func, limit) has returned its wrapper.
ThrottleInit ==
  /\ thInThrottle = "undefined"
  /\ thTimers = 0
  /\ thExpiries = 0
  /\ thCalls = << >>
  /\ thLog = << >>
  /\ thErr = "none"

UtilInit ==
  /\ DebounceInit
  /\ ThrottleInit

Init ==
  /\ hasGallery \in BOOLEAN
  /\ items \in (IF hasGallery
                THEN {[k \in 1..Len(g) |-> Item(g[k], k - 1)] : g \in Galleries}
                ELSE {<< >>})
  /\ hasHamburger \in BOOLEAN
  /\ hasMenu \in BOOLEAN
  /\ ProgInit
  /\ HistInit
  /\ UtilInit

\* Direct calls of the Lightbox methods.
CallOpen(i) ==
  /\ i \in 0..(itemCount - 1)
  /\ Commit(Lightbox_open(Cur, i))
  /\ Record("open", i)

CallClose ==
  /\ Commit(Lightbox_close(Cur))
  /\ Record("close", 0)

CallNext ==
  /\ Commit(Lightbox_next(Cur))
  /\ Record("next", 0)

CallPrev ==
  /\ Commit(Lightbox_prev(Cur))
  /\ Record("prev", 0)

\* Click on the i-th gallery item.
ClickItem(i) ==
  /\ i \in 0..(itemCount - 1)
  /\ Commit(Bubble(Lightbox_open(Cur, i), FALSE))
  /\ Record("clickItem", i)

\* Click on .lightbox-overlay: the first [data-lightbox-close] element, so it
\* carries both close listeners.
ClickOverlay ==
  /\ Commit(Bubble(Lightbox_close(Lightbox_close(Cur)), FALSE))
  /\ Record("clickOverlay", 0)

\* Click on button.lightbox-close: querySelector never returned it, so it has
\* no listener of the Lightbox.
ClickCloseButton ==
  /\ Commit(Bubble(Cur, FALSE))
  /\ Record("clickCloseButton", 0)

ClickPrevButton ==
  /\ Commit(Bubble(Lightbox_prev(Cur), FALSE))
  /\ Record("clickPrev", 0)

ClickNextButton ==
  /\ Commit(Bubble(Lightbox_next(Cur), FALSE))
  /\ Record("clickNext", 0)

KeyDown(key) ==
  /\ key \in Keys
  /\ Commit(Lightbox_keydown(Cur, key))
  /\ Record("keydown:" \o key, 0)

ClickHamburger ==
  /\ hasHamburger
  /\ Commit(Bubble(MobileMenu_toggle(Cur), TRUE))
  /\ Record("clickHamburger", 0)

ClickMenuLink ==
  /\ hasMenu
  /\ Commit(Bubble(MobileMenu_close(Cur), TRUE))
  /\ Record("clickMenuLink", 0)

\* Click anywhere else in the page.
ClickOutside ==
  /\ Commit(Bubble(Cur, FALSE))
  /\ Record("clickOutside", 0)

Resize(innerWidth) ==
  /\ innerWidth \in Widths
  /\ Commit(MobileMenu_resize(Cur, innerWidth))
  /\ Record("resize", innerWidth)

\* Lightbox.open called with any index, as the exported class allows.
CallOpenAny(i) ==
  /\ i \in ApiIndices
  /\ Commit(Lightbox_open(Cur, i))
  /\ Record("open", i)

\* The exported Lightbox called directly, open() with any index.
ApiNext ==
  \/ \E i \in ApiIndices : CallOpenAny(i)
  \/ CallClose
  \/ CallNext
  \/ CallPrev

SpecApi == Init /\ [][ApiNext]_vars

\* Direct calls of the MobileMenu methods, as the exported class allows.
CallMenuOpen ==
  /\ Commit(MobileMenu_open(Cur))
  /\ Record("menuOpen", 0)

CallMenuClose ==
  /\ Commit(MobileMenu_close(Cur))
  /\ Record("menuClose", 0)

CallMenuToggle ==
  /\ Commit(MobileMenu_toggle(Cur))
  /\ Record("menuToggle", 0)

\* The Lightbox driven through its methods alone.
LightboxNext ==
  \/ \E i \in 0..(MaxItems - 1) : CallOpen(i)
  \/ CallClose
  \/ CallNext
  \/ CallPrev

SpecLightbox == Init /\ [][LightboxNext]_vars

\* The whole page: method calls and DOM events of both components.
Next ==
  \/ \E i \in 0..(MaxItems - 1) : CallOpen(i)
  \/ CallClose
  \/ CallNext
  \/ CallPrev
  \/ \E i \in 0..(MaxItems - 1) : ClickItem(i)
  \/ ClickOverlay
  \/ ClickCloseButton
  \/ ClickPrevButton
  \/ ClickNextButton
  \/ \E key \in Keys : KeyDown(key)
  \/ ClickHamburger
  \/ ClickMenuLink
  \/ ClickOutside
  \/ \E w \in Widths : Resize(w)
  \/ CallMenuOpen
  \/ CallMenuClose
  \/ CallMenuToggle

Spec == Init /\ [][Next]_vars

\* ------------------------------------------------------------------ claims

\* C1: with at least one item, currentIndex is a valid position of the
\* gallery in every state reached by open(i) with valid i, next(), prev()
\* and close().
C1_IndexInRange ==
  itemCount > 0 => (IsInteger(currentIndex) /\ currentIndex \in 0..(itemCount - 1))

\* prev() from index 0 has wrapped to the last item of a full gallery.
C1_Witness ==
  /\ itemCount = MaxItems
  /\ lastOp = "prev"
  /\ indexBefore = 0
  /\ currentIndex = itemCount - 1

\* C2: whenever the lightbox is open the body's overflow is 'hidden',
\* whatever lightbox and mobile-menu events have been interleaved.
C2_LockedWhileOpen ==
  modalActive => bodyOverflow = "hidden"

\* C3: driven by the lightbox methods alone, the scroll lock is held exactly
\* when the lightbox is open.
C3_LockIffOpen ==
  modalActive <=> bodyOverflow = "hidden"

\* close() has released the lock of a lightbox that had been opened.
C3_Witness ==
  /\ lastOp = "close"
  /\ prevOp = "open"
  /\ ~modalActive
  /\ bodyOverflow = ""

\* C4: with no items, next() and prev() raise nothing, leave currentIndex the
\* integer it was and leave the lightbox closed.
C4_EmptyGalleryNoOp ==
  (itemCount = 0 /\ lastOp \in {"next", "prev"}) =>
    /\ err = "none"
    /\ IsInteger(currentIndex)
    /\ currentIndex = indexBefore
    /\ ~modalActive

\* C5: next() then prev(), and prev() then next(), restore currentIndex.
C5_InverseLaws ==
  (/\ itemCount > 0
   /\ indexBefore2 \in 0..(itemCount - 1)
   /\ \/ (prevOp = "next" /\ lastOp = "prev")
      \/ (prevOp = "prev" /\ lastOp = "next"))
  => currentIndex = indexBefore2

\* next() wrapped from the last item to the first and prev() went back.
C5_Witness ==
  /\ itemCount = MaxItems
  /\ prevOp = "next"
  /\ lastOp = "prev"
  /\ indexBefore2 = itemCount - 1
  /\ indexBefore = 0
  /\ currentIndex = itemCount - 1

\* C6: itemCount calls of next() in a row return to the starting index.
C6_CyclicLaw ==
  (/\ itemCount > 0
   /\ runStart \in 0..(itemCount - 1)
   /\ runLength = itemCount)
  => currentIndex = runStart

\* A full cycle of a full gallery that started in the middle.
C6_Witness ==
  /\ itemCount = MaxItems
  /\ runLength = itemCount
  /\ runStart = 1
  /\ currentIndex = 1

\* C7: next() stores (currentIndex + 1) mod itemCount, so the last index goes
\* to 0; prev() stores (currentIndex - 1 + itemCount) mod itemCount, so index
\* 0 goes to itemCount - 1.
C7_WrapAround ==
  (itemCount > 0 /\ indexBefore \in 0..(itemCount - 1)) =>
    /\ lastOp = "next" =>
         /\ currentIndex = (indexBefore + 1) % itemCount
         /\ indexBefore = itemCount - 1 => currentIndex = 0
    /\ lastOp = "prev" =>
         /\ currentIndex = (indexBefore - 1 + itemCount) % itemCount
         /\ indexBefore = 0 => currentIndex = itemCount - 1

\* open(0) then prev() on three items shows the last one, "3 / 3".
C7_Witness ==
  /\ itemCount = 3
  /\ prevOp = "open"
  /\ lastOp = "prev"
  /\ indexBefore = 0
  /\ currentIndex = 2
  /\ display.current = "3"
  /\ display.total = "3"

\* C8: open(i) with a valid i, from a closed or an open lightbox, leaves
\* currentIndex = i, the lightbox open and the counter showing i + 1 and
\* itemCount.
C8_OpenSetsIndex ==
  lastOp = "open" =>
    /\ currentIndex = lastArg
    /\ modalActive
    /\ display.current = NumberToString(lastArg + 1)
    /\ display.total = NumberToString(itemCount)

\* open(i) on a lightbox already open at another item.
C8_Witness ==
  /\ prevOp = "open"
  /\ lastOp = "open"
  /\ lastArg = itemCount - 1
  /\ indexBefore = 0
  /\ lastArg # indexBefore
  /\ currentIndex = lastArg
  /\ display.current = NumberToString(itemCount)

\* C9: close() on a closed lightbox changes nothing: not the open state, the
\* index or the displayed content, and not the scroll lock, also when the open
\* mobile menu holds it.
C9_CloseIdempotent ==
  [][(lastOp' = "close" /\ ~modalActive) => (UNCHANGED progVars /\ err' = "none")]_vars

\* C10: while the lightbox is closed a keydown of any key changes nothing;
\* while it is open ArrowLeft steps back, ArrowRight steps forward (both
\* wrapping, both leaving it open and the lock alone) and Escape closes it
\* and clears the lock.
C10_Keyboard ==
  [][\A key \in Keys :
       lastOp' = "keydown:" \o key =>
         IF ~modalActive THEN (UNCHANGED progVars /\ err' = "none")
         ELSE /\ key = "ArrowLeft" =>
                   /\ currentIndex' = (currentIndex - 1 + itemCount) % itemCount
                   /\ display'.current = NumberToString(currentIndex' + 1)
                   /\ modalActive' /\ bodyOverflow' = bodyOverflow
              /\ key = "ArrowRight" =>
                   /\ currentIndex' = (currentIndex + 1) % itemCount
                   /\ display'.current = NumberToString(currentIndex' + 1)
                   /\ modalActive' /\ bodyOverflow' = bodyOverflow
              /\ key = "Escape" =>
                   /\ ~modalActive' /\ bodyOverflow' = ""
                   /\ currentIndex' = currentIndex /\ display' = display
              /\ key \notin {"ArrowLeft", "ArrowRight", "Escape"} =>
                   (UNCHANGED progVars /\ err' = "none")]_vars

\* An arrow key was pressed on a closed lightbox while the open mobile menu
\* held the scroll lock.
C10_Witness ==
  /\ lastOp = "keydown:ArrowRight"
  /\ ~modalActive
  /\ itemCount > 1
  /\ isOpen
  /\ bodyOverflow = "hidden"

\* C11: while the lightbox is open the modal shows the item at currentIndex:
\* the counter reads currentIndex + 1 and itemCount, and the image source,
\* alt text and caption are the ones of items[currentIndex] (its data-*
\* attribute when it has a non-empty one, else the element's own src / alt,
\* else nothing).
C11_ModalIsProjection ==
  (modalActive /\ itemCount > 0) =>
    /\ currentIndex \in 0..(itemCount - 1)
    /\ LET item == items[currentIndex + 1] IN
       /\ display.current = NumberToString(currentIndex + 1)
       /\ display.total = NumberToString(itemCount)
       /\ display.src =
            (IF item.dataSrc \notin {Null, ""} THEN item.dataSrc
             ELSE IF item.src = Undefined THEN "undefined" ELSE item.src)
       /\ display.alt =
            (IF item.dataAlt \notin {Null, ""} THEN item.dataAlt
             ELSE IF item.alt \notin {Undefined, ""} THEN item.alt ELSE "")
       /\ display.caption =
            (IF item.dataCaption \notin {Null, ""} THEN item.dataCaption
             ELSE "")

\* The open lightbox was stepped forward to a plain <img> item, whose own
\* src and alt are shown.
C11_Witness ==
  /\ modalActive
  /\ lastOp = "next"
  /\ currentIndex = 1
  /\ items[2].dataSrc = Null
  /\ display.src = "thumb1.jpg"
  /\ display.alt = "imgalt1"
  /\ display.caption = ""
  /\ display.current = "2"

\* C12: open(index) with index < 0 or index >= itemCount fails with the
\* out-of-range error condition; the argument is neither clamped nor wrapped
\* into the range (an index in range after the call is the index of before
\* the call), and a closed lightbox stays closed.
C12_OutOfRangeOpenFails ==
  [][(lastOp' = "open" /\ lastArg' \notin 0..(itemCount - 1)) =>
       /\ err' = "OutOfRange"
       /\ currentIndex' \in 0..(itemCount - 1) => currentIndex' = currentIndex
       /\ ~modalActive => ~modalActive']_vars

\* C13: with no gallery root or no items the lightbox never opens and never
\* takes the scroll lock (the body is locked only while the mobile menu is
\* shown), whatever is clicked or pressed; construction raises nothing.
C13_InertWithoutItems ==
  (~hasGallery \/ itemCount = 0) =>
    /\ ~modalActive
    /\ bodyOverflow = "hidden" => menuActive
    /\ lastOp = "init" => err = "none"

\* The next control of the modal was clicked on a page without a gallery.
C13_Witness ==
  /\ ~hasGallery
  /\ lastOp = "clickNext"
  /\ prevOp = "keydown:Escape"
  /\ ~modalActive
  /\ bodyOverflow = ""

\* C14: the document holds exactly one lightbox modal after construction and
\* after every open, close, next and prev.
C14_OneModal ==
  modalCount = 1

\* The lightbox has been opened, stepped and closed again.
C14_Witness ==
  /\ modalCount = 1
  /\ prevOp = "next"
  /\ lastOp = "close"
  /\ display.current = "2"

\* C15: next() and prev() change the index and the rendered item and nothing
\* else, whether the lightbox is open or closed; close() leaves the index
\* alone; the lightbox goes from closed to open by open(i) alone (called
\* directly or by the click on item i).
C15_Transitions ==
  [][/\ lastOp' \in {"next", "prev"} =>
          /\ modalActive' = modalActive
          /\ bodyOverflow' = bodyOverflow
          /\ UNCHANGED <<modalCount, isOpen, hamburgerActive, menuActive,
                         linkAnimation>>
     /\ lastOp' = "close" => currentIndex' = currentIndex
     /\ (~modalActive /\ modalActive') => lastOp' \in {"open", "clickItem"}
    ]_vars

\* next() on a closed lightbox moved the index and rendered the item, and
\* the lightbox is still closed and the page unlocked.
C15_Witness ==
  /\ lastOp = "next"
  /\ indexBefore = 0
  /\ currentIndex = 1
  /\ display.current = "2"
  /\ ~modalActive
  /\ bodyOverflow = ""

\* C16: a lightbox call that raises an exception (open with an index out of
\* range, next or prev on an empty gallery) leaves currentIndex, the open
\* state and the scroll lock as they were.
C16_FailureLeavesState ==
  [][(lastOp' \in {"open", "next", "prev"} /\ err' # "none") =>
       UNCHANGED <<currentIndex, modalActive, bodyOverflow>>]_vars

\* C17: a click makes one menu transition although it also reaches the
\* document listener: a click on the hamburger flips the menu once (an
\* opening click leaves it open), a click on a menu link leaves it closed, a
\* click outside both leaves it closed and changes nothing when it was closed.
C17_OneTransitionPerClick ==
  [][/\ lastOp' = "clickHamburger" =>
          /\ isOpen' = ~isOpen
          /\ hamburgerActive' = isOpen'
          /\ hasMenu => menuActive' = isOpen'
     /\ lastOp' = "clickMenuLink" => ~isOpen'
     /\ lastOp' = "clickOutside" =>
          /\ ~isOpen'
          /\ ~isOpen => UNCHANGED progVars
    ]_vars

\* The click that opened the menu has left it open and the page locked.
C17_Witness ==
  /\ lastOp = "clickHamburger"
  /\ isOpen
  /\ hamburgerActive
  /\ menuActive
  /\ bodyOverflow = "hidden"

\* C18: MobileMenu.isOpen is true exactly when the hamburger and the menu
\* both carry the class 'active', and a resize to a width above 768 leaves
\* the menu closed.
C18_MenuStateMatchesClasses ==
  /\ isOpen <=> (hamburgerActive /\ menuActive)
  /\ (lastOp = "resize" /\ lastArg > Breakpoint) => ~isOpen

\* --------------------------------------------------------------- Utilities
\* The arguments the wrapped functions are called with.
Args == {"a", "b"}

\* clearTimeout(id): an id that names no pending timer is ignored.
ClearTimeout(timers, id) == {t \in timers : t.id # id}

\* Variant: the wrapper sets its timer without clearing the pending one.
Debounce_executedFunction_NoClear(d, args, t) ==
  [d EXCEPT !.timers = @ \cup {[id |-> d.nextId, due |-> t + Wait,
                                args |-> args, call |-> Len(d.calls) + 1]},
            !.timeout = d.nextId,
            !.nextId = @ + 1,
            !.calls = Append(@, <<t, args>>)]

\* executedFunction(...args) at time t: clearTimeout(timeout);
\* timeout = setTimeout(later, wait).  The timer keeps the args of its call
\* (later closes over them) and, as an observation, the number of that call.
Debounce_executedFunction(d, args, t) ==
  [d EXCEPT !.timers = ClearTimeout(@, d.timeout)
                         \cup {[id |-> d.nextId, due |-> t + Wait,
                                args |-> args, call |-> Len(d.calls) + 1]},
            !.timeout = d.nextId,
            !.nextId = @ + 1,
            !.calls = Append(@, <<t, args>>)]

\* later() of the timer that expires at time t: clearTimeout(timeout);
\* func(...args).  The log keeps what func received and when.
Debounce_later(d, timer, t) ==
  [d EXCEPT !.timers = ClearTimeout(@ \ {timer}, d.timeout),
            !.log = Append(@, [args |-> timer.args, call |-> timer.call,
                               time |-> t, calls |-> Len(d.calls)])]

Deb ==
  [timeout |-> dbTimeout, timers |-> dbTimers, nextId |-> dbNextId,
   calls |-> dbCalls, log |-> dbLog]

DebCommit(d) ==
  /\ dbTimeout' = d.timeout
  /\ dbTimers' = d.timers
  /\ dbNextId' = d.nextId
  /\ dbCalls' = d.calls
  /\ dbLog' = d.log

\* The debounced function is called.
DebounceCall(args) ==
  /\ Len(dbCalls) < MaxCalls
  /\ DebCommit(Debounce_executedFunction(Deb, args, now))
  /\ UNCHANGED <<now, throttleVars, pageVars, progVars, err, histVars>>

\* A pending timer whose delay has passed runs its callback; the host may
\* run it late, never early.
DebounceTimer ==
  /\ \E timer \in dbTimers :
       /\ timer.due <= now
       /\ DebCommit(Debounce_later(Deb, timer, now))
  /\ UNCHANGED <<now, throttleVars, pageVars, progVars, err, histVars>>

Tick ==
  /\ now < MaxTime
  /\ now' = now + 1
  /\ UNCHANGED <<dbTimeout, dbTimers, dbNextId, dbCalls, dbLog>>
  /\ UNCHANGED <<throttleVars, pageVars, progVars, err, histVars>>

\* The utilities on their own: a page without gallery and menu, the two
\* wrappers just created.
BarePage ==
  /\ hasGallery = FALSE
  /\ items = << >>
  /\ hasHamburger = FALSE
  /\ hasMenu = FALSE
  /\ ProgInit
  /\ HistInit
  /\ UtilInit

DebounceNext ==
  \/ \E args \in Args : DebounceCall(args)
  \/ DebounceTimer
  \/ Tick

SpecDebounce == BarePage /\ [][DebounceNext]_vars

\* C19: a debounced function has at most one timer pending; func runs only
\* when Wait has passed since the latest call, so never inside a burst of
\* calls less than Wait apart; it runs for the last call of the burst, with
\* that call's arguments, and once: no call is run twice, and once no timer
\* is pending the latest call is the last one run.
C19_Debounce ==
  /\ Cardinality(dbTimers) <= 1
  /\ \A k \in 1..Len(dbLog) :
       LET e == dbLog[k] IN
       /\ e.call = e.calls
       /\ e.args = dbCalls[e.calls][2]
       /\ e.time - dbCalls[e.calls][1] >= Wait
       /\ \A j \in 1..Len(dbLog) : dbLog[j].call = e.call => j = k
  /\ (dbTimers = {} /\ Len(dbCalls) > 0) =>
       /\ Len(dbLog) > 0
       /\ dbLog[Len(dbLog)].call = Len(dbCalls)

\* A burst of two calls less than Wait apart, with different arguments, has
\* ended in one run of func, with the arguments of the second call.
C19_Witness ==
  /\ Len(dbCalls) = 2
  /\ dbCalls[1] = <<0, "a">>
  /\ dbCalls[2] = <<1, "b">>
  /\ dbTimers = {}
  /\ Len(dbLog) = 1
  /\ dbLog[1].args = "b"
  /\ dbLog[1].time = 1 + Wait

\* What func does each time it runs during one call from outside: it
\* returns, it throws, or it calls the throttled function itself and then
\* returns.  A plan lists this for the run of the outer call and for the
\* runs nested in it, outermost first.
Plans ==
  {[k \in 1..n |-> IF k < n THEN "reenter" ELSE e] :
     n \in 1..(MaxDepth + 1), e \in {"return", "throw"}}

\* The wrapper's body for call number n from outside: when inThrottle is
\* falsy, func.apply(this, args) first, and only once func has returned
\* inThrottle = true and setTimeout(..., limit).  An exception of func
\* leaves the body before either, and passes through a func that made the
\* nested call.
RECURSIVE Throttle_body(_, _, _, _)
Throttle_body(h, n, args, plan) ==
  IF h.inThrottle = "true"
  THEN h
  ELSE LET ran == [h EXCEPT !.log = Append(@, [call |-> n, args |-> args,
                                               expiries |-> h.expiries]),
                            !.expiries = 0]
           after == IF Head(plan) = "return" THEN ran
                    ELSE IF Head(plan) = "throw"
                         THEN [ran EXCEPT !.err = "Error"]
                         ELSE Throttle_body(ran, n, "inner", Tail(plan))
       IN  IF after.err # "none"
           THEN after
           ELSE [after EXCEPT !.inThrottle = "true", !.timers = @ + 1]

\* The throttled function called from outside with args.
Throttle_call(h, args, plan) ==
  Throttle_body([h EXCEPT !.calls = Append(@, args), !.err = "none"],
                Len(h.calls) + 1, args, plan)

\* The limit timer expires: inThrottle = false.
Throttle_timer(h) ==
  [h EXCEPT !.inThrottle = "false", !.timers = @ - 1, !.expiries = @ + 1,
            !.err = "none"]

Thr ==
  [inThrottle |-> thInThrottle, timers |-> thTimers,
   expiries |-> thExpiries, calls |-> thCalls, log |-> thLog,
   err |-> thErr]

ThrCommit(h) ==
  /\ thInThrottle' = h.inThrottle
  /\ thTimers' = h.timers
  /\ thExpiries' = h.expiries
  /\ thCalls' = h.calls
  /\ thLog' = h.log
  /\ thErr' = h.err

ThrottleCall(args, plan) ==
  /\ Len(thCalls) < MaxCalls
  /\ ThrCommit(Throttle_call(Thr, args, plan))
  /\ UNCHANGED <<debounceVars, pageVars, progVars, err, histVars>>

ThrottleTimer ==
  /\ thTimers > 0
  /\ ThrCommit(Throttle_timer(Thr))
  /\ UNCHANGED <<debounceVars, pageVars, progVars, err, histVars>>

ThrottleNext ==
  \/ \E args \in Args, plan \in Plans : ThrottleCall(args, plan)
  \/ ThrottleTimer

SpecThrottle == BarePage /\ [][ThrottleNext]_vars

\* C20: the first call of a throttled function runs func at once; a call
\* made while the limit timer is pending is dropped, so func runs only in
\* the step of a call, with that call's arguments, and an earlier call is
\* never run later; between two runs of func a limit timer has expired.
C20_Throttle ==
  [][/\ (Len(thCalls') > Len(thCalls) /\ thInThrottle = "true") =>
          thLog' = thLog
     /\ thLog' # thLog =>
          /\ Len(thCalls') = Len(thCalls) + 1
          /\ thLog' = Append(thLog,
                             [call |-> Len(thCalls'),
                              args |-> thCalls'[Len(thCalls')],
                              expiries |-> thExpiries])
     /\ Len(thCalls') > 0 =>
          /\ Len(thLog') > 0
          /\ thLog'[1].call = 1
          /\ thLog'[1].args = thCalls'[1]
     /\ \A k \in 1..Len(thLog') :
          /\ thLog'[k].args = thCalls'[thLog'[k].call]
          /\ k > 1 => /\ thLog'[k].expiries >= 1
                      /\ thLog'[k].call > thLog'[k - 1].call
    ]_vars

====
